---- MODULE Spec2Model ----
(***************************************************************************)
(* Model of backend/routes/api/comments.js: the two Express handlers of    *)
(* the comments router (GET / and DELETE /:id) over the Comment            *)
(* collection, and the string utility toKebabCase defined in the same      *)
(* file; toCamelCase of few_shot_prompt.js; toCamelCase and toDotCase of   *)
(* the documented utilities file.                                          *)
(*                                                                         *)
(* The Comment collection is comments and the Item collection is items.    *)
(* A request is a record in reqs.  A handler runs in separate steps,       *)
(* because the persistence call is asynchronous: the handler issues it,    *)
(* the store settles it (resolves it or rejects it) at some later moment,  *)
(* and the continuation (the code after await, or the then/catch callback) *)
(* sends the response.  Requests of different callers interleave between   *)
(* those steps.                                                            *)
(*                                                                         *)
(* Strings are sequences of one-character strings over Alphabet.  The     *)
(* argument of a utility call is a JavaScript value: argKind says which    *)
(* kind of value it is, and arg holds its characters when it is a string.  *)
(***************************************************************************)
EXTENDS Integers, Sequences, FiniteSets, TLC

VARIABLES comments, items, reqs, fn, arg, argKind, ret, thrown

vars == <<comments, items, reqs, fn, arg, argKind, ret, thrown>>

(* ------------------------------ bounds -------------------------------- *)

NumComments == 2    \* comments in the collection when the server starts
MaxReqs == 2        \* requests received in one behaviour
MaxLen == 4         \* longest input string of a string utility

(* --------------------------- callers, store --------------------------- *)

Anonymous == "anonymous"
Users == {"alice", "bob", "carol"}
\* the identities requests are sent under: no identity, a user who wrote some of
\* the comments and not the others, and an admin
Callers == {Anonymous, "alice", "carol"}

\* role of a resolved identity (docs/API.md, User.role)
Role(c) == IF c = "carol" THEN "admin" ELSE IF c \in Users THEN "user" ELSE "none"

CommentIds == 1..NumComments
\* ids a client can put in the path: the stored ones and one that was never stored
RequestIds == 1..(NumComments + 1)

AuthorOf(id) == IF id % 2 = 1 THEN "alice" ELSE "bob"

\* the Comment documents (docs/API.md, Data Models / Comment)
InitialComments ==
    { [id |-> i, body |-> i, author |-> AuthorOf(i), item |-> 1] : i \in CommentIds }

\* the Item documents (docs/API.md, Data Models / Item): each holds in its
\* comments array the ids of the comments that were added to it
ItemIds == {1}

CommentsOf(it) == { c \in InitialComments : c.item = it }

InitialItems ==
    { [id |-> it, comments |-> { c.id : c \in CommentsOf(it) }] : it \in ItemIds }

\* values a rejected persistence call can carry
Errors == {"E1", "E2"}

(* ------------------------- persistence calls -------------------------- *)

\* Comment.findOne() in place of Comment.find(): at most one document
FindOne(store) == IF store = {} THEN {} ELSE {CHOOSE c \in store : TRUE}

\* Comment.find(): every document of the collection
Find(store) == store

\* the document findByIdAndDelete resolves with: the one with that id, or null ({})
FoundById(store, id) == { c \in store : c.id = id }

\* deleteMany() with a filter that matches every document
DeleteManyAfter(store, id) == IF FoundById(store, id) = {} THEN store ELSE {}

\* a soft delete: the document stays, with its body blanked
SoftDeleteAfter(store, id) ==
    { IF c.id = id THEN [c EXCEPT !.body = 0] ELSE c : c \in store }

\* the collection after findByIdAndDelete: without the document of that id
AfterFindByIdAndDelete(store, id) == store \ FoundById(store, id)

(* ----------------------------- responses ------------------------------ *)

NoDocs == {}

JsonList(docs) == [status |-> 200, kind |-> "json", docs |-> docs, error |-> ""]
JsonError(st, msg) == [status |-> st, kind |-> "error", docs |-> NoDocs, error |-> msg]
Empty(st) == [status |-> st, kind |-> "empty", docs |-> NoDocs, error |-> ""]

\* GET /: the code after `await Comment.find()`, and its catch block
GetTry(found) == JsonList(found)

GetCatch(err) == JsonError(500, "Failed to fetch comments")

\* DELETE /:id: the then callback and the catch callback
DeleteThenAlways204(comment) == Empty(204)

DeleteThen(comment) ==
    IF comment = {} THEN JsonError(404, "Comment not found") ELSE Empty(204)

DeleteCatch(err) == JsonError(500, "Failed to delete comment")

(* ------------------------------ requests ------------------------------ *)

NewRequest(m, c, id) ==
    [method |-> m, caller |-> c, id |-> id,
     settle |-> "pending", value |-> NoDocs, err |-> "none", resp |-> <<>>]

Pending(i) == i \in 1..Len(reqs) /\ reqs[i].settle = "pending"
\* a handler with no catch: only a resolved promise has a continuation
ResolvedOnly(i) == i \in 1..Len(reqs) /\ reqs[i].settle = "resolved"

\* the promise of request i has settled: its continuation is ready to run
Settled(i) == i \in 1..Len(reqs) /\ reqs[i].settle \in {"resolved", "rejected"}

(* --------------------------- string utility --------------------------- *)

Lower == {"a", "b"}
Upper == {"A", "B"}
Digit == {"1"}
Whitespace == {" "}
\* a character that is no letter, digit, whitespace, underscore, hyphen or dot
Special == {"@"}
Alphabet == Lower \cup Upper \cup Digit \cup Whitespace \cup {"_", "-", "."} \cup Special

Strings == UNION { [1..n -> Alphabet] : n \in 0..MaxLen }

\* the kinds of value a caller can pass: a string, 123, null, undefined, {}, true
Kinds == {"string", "number", "null", "undefined", "object", "boolean"}

\* the typeof operator
TypeOf(kind) == IF kind = "null" THEN "object" ELSE kind

\* String.prototype.toLowerCase
LowerOf(c) == CASE c = "A" -> "a" [] c = "B" -> "b" [] OTHER -> c

ToLowerCase(s) == [i \in 1..Len(s) |-> LowerOf(s[i])]

\* last index of the maximal run of Class characters that starts at i
RECURSIVE RunEnd(_, _, _)
RunEnd(s, i, Class) ==
    IF i < Len(s) /\ s[i + 1] \in Class THEN RunEnd(s, i + 1, Class) ELSE i

\* str.replace(/([a-z])([A-Z])/g, '$1-$2'), scanning left to right; a match
\* consumes both letters
RECURSIVE CamelScanAlnum(_, _)
CamelScanAlnum(s, i) ==
    IF i > Len(s) THEN <<>>
    ELSE IF i < Len(s) /\ s[i] \in (Lower \cup Digit) /\ s[i + 1] \in Upper
         THEN <<s[i], "-", s[i + 1]>> \o CamelScanAlnum(s, i + 2)
         ELSE <<s[i]>> \o CamelScanAlnum(s, i + 1)

RECURSIVE CamelScan(_, _)
CamelScan(s, i) ==
    IF i > Len(s) THEN <<>>
    ELSE IF i < Len(s) /\ s[i] \in Lower /\ s[i + 1] \in Upper
         THEN <<s[i], "-", s[i + 1]>> \o CamelScan(s, i + 2)
         ELSE <<s[i]>> \o CamelScan(s, i + 1)

InsertHyphensAfterDigit(s) == CamelScanAlnum(s, 1)

\* replace(/([A-Z])/g, '-$1'): a hyphen before every uppercase letter
RECURSIVE InsertHyphensBeforeUpper(_)
InsertHyphensBeforeUpper(s) ==
    IF s = <<>> THEN <<>>
    ELSE (IF Head(s) \in Upper THEN <<"-", Head(s)>> ELSE <<Head(s)>>)
         \o InsertHyphensBeforeUpper(Tail(s))

InsertHyphens(s) == CamelScan(s, 1)

\* s.replace(/[Class]+/g, '-'): every maximal run of Class characters becomes
\* one hyphen
RECURSIVE RunsToHyphen(_, _, _)
RunsToHyphen(s, i, Class) ==
    IF i > Len(s) THEN <<>>
    ELSE IF s[i] \in Class
         THEN <<"-">> \o RunsToHyphen(s, RunEnd(s, i, Class) + 1, Class)
         ELSE <<s[i]>> \o RunsToHyphen(s, i + 1, Class)

\* the same replace without the g flag: the first run only
FirstRunToHyphen(s, Class) ==
    IF \E i \in 1..Len(s) : s[i] \in Class
    THEN LET i == CHOOSE k \in 1..Len(s) :
                      s[k] \in Class /\ \A j \in 1..(k - 1) : s[j] \notin Class
         IN  SubSeq(s, 1, i - 1) \o <<"-">> \o SubSeq(s, RunEnd(s, i, Class) + 1, Len(s))
    ELSE s

ReplaceFirstSpaceOrUnderscore(s) == FirstRunToHyphen(s, Whitespace \cup {"_"})

\* result.replace(/[\s_]+/g, '-')
ReplaceSpacesAndUnderscores(s) == RunsToHyphen(s, 1, Whitespace \cup {"_"})

RECURSIVE StripLeading(_)
StripLeading(s) == IF s # <<>> /\ Head(s) = "-" THEN StripLeading(Tail(s)) ELSE s

RECURSIVE StripTrailing(_)
StripTrailing(s) ==
    IF s # <<>> /\ s[Len(s)] = "-" THEN StripTrailing(SubSeq(s, 1, Len(s) - 1)) ELSE s

\* /^-|-$/g, without the +: one hyphen at each end
TrimOneHyphenEachEnd(s) ==
    LET t == IF s # <<>> /\ Head(s) = "-" THEN Tail(s) ELSE s
    IN  IF t # <<>> /\ t[Len(t)] = "-" THEN SubSeq(t, 1, Len(t) - 1) ELSE t

\* result.replace(/^-+|-+$/g, '')
TrimHyphens(s) == StripTrailing(StripLeading(s))

\* step 5 left out
KeepHyphens(s) == s

\* result.replace(/-+/g, '-')
CollapseHyphens(s) == RunsToHyphen(s, 1, {"-"})

toKebabCase(str) ==
    CollapseHyphens(TrimHyphens(ReplaceSpacesAndUnderscores(ToLowerCase(InsertHyphens(str)))))

(* ------------- toCamelCase (few_shot_prompt.js) and helpers ------------ *)

\* String.prototype.toUpperCase, one character
UpperOf(c) == CASE c = "a" -> "A" [] c = "b" -> "B" [] OTHER -> c

\* first index at or after i of a Class character, Len(s) + 1 when there is none
RECURSIVE NextIn(_, _, _)
NextIn(s, i, Class) ==
    IF i > Len(s) \/ s[i] \in Class THEN i ELSE NextIn(s, i + 1, Class)

\* s.split(/[Class]+/) from index i on: the pieces between the maximal runs of
\* Class characters, the empty pieces before a leading run and after a trailing
\* run included; the empty string gives one empty piece
RECURSIVE SplitFrom(_, _, _)
SplitFrom(s, i, Class) ==
    LET j == NextIn(s, i, Class)
    IN  IF j > Len(s)
        THEN <<SubSeq(s, i, Len(s))>>
        ELSE <<SubSeq(s, i, j - 1)>> \o SplitFrom(s, RunEnd(s, j, Class) + 1, Class)

Split(s, Class) == SplitFrom(s, 1, Class)

\* lowerWord.charAt(0).toUpperCase() + lowerWord.slice(1)
Capitalize(w) == IF w = <<>> THEN <<>> ELSE <<UpperOf(Head(w))>> \o Tail(w)

\* the map callback without the toLowerCase of later words
CamelWordKeepsCase(word, index) ==
    IF index = 0 THEN ToLowerCase(word) ELSE Capitalize(word)

\* words.map((word, index) => ...): the first word lowercased, every later word
\* lowercased and then capitalized
CamelWord(word, index) ==
    IF index = 0 THEN ToLowerCase(word) ELSE Capitalize(ToLowerCase(word))

\* .join(sep) of the words from index i on
RECURSIVE JoinFrom(_, _, _)
JoinFrom(words, i, sep) ==
    IF i > Len(words) THEN <<>>
    ELSE IF i = Len(words) THEN words[i]
    ELSE words[i] \o sep \o JoinFrom(words, i + 1, sep)

Join(words, sep) == JoinFrom(words, 1, sep)

\* str.split(/[\s_-]+/)
FewShotSeparators == Whitespace \cup {"_", "-"}

toCamelCaseFewShot(str) ==
    LET words == Split(str, FewShotSeparators)
    IN  Join([k \in 1..Len(words) |-> CamelWord(words[k], k - 1)], <<>>)

(* ------------- toCamelCase and toDotCase (documented file) ------------- *)

\* [\s_\-.]
DocSeparators == Whitespace \cup {"_", "-", "."}

\* [a-zA-Z0-9\s_\-.]
Kept == Lower \cup Upper \cup Digit \cup DocSeparators

RECURSIVE StripLeadingIn(_, _)
StripLeadingIn(s, Class) ==
    IF s # <<>> /\ Head(s) \in Class THEN StripLeadingIn(Tail(s), Class) ELSE s

RECURSIVE StripTrailingIn(_, _)
StripTrailingIn(s, Class) ==
    IF s # <<>> /\ s[Len(s)] \in Class
    THEN StripTrailingIn(SubSeq(s, 1, Len(s) - 1), Class)
    ELSE s

\* String.prototype.trim
Trim(s) == StripTrailingIn(StripLeadingIn(s, Whitespace), Whitespace)

\* s.replace(/[Class]/g, '')
Remove(s, Class) == SelectSeq(s, LAMBDA c : c \notin Class)

\* !str.trim() || !str.replace(/[\s_\-.]/g, '')
OnlySeparators(str) == Trim(str) = <<>> \/ Remove(str, DocSeparators) = <<>>

\* special characters replaced by a space instead of removed
CleanedSpecialToSpace(str) ==
    LET kept == [i \in 1..Len(str) |-> IF str[i] \in Kept THEN str[i] ELSE " "]
    IN  StripTrailingIn(StripLeadingIn(kept, DocSeparators), DocSeparators)

\* str.replace(/[^a-zA-Z0-9\s_\-.]/g, '') and then
\* cleaned.replace(/^[\s_\-.]+|[\s_\-.]+$/g, '')
Cleaned(str) ==
    LET kept == Remove(str, Alphabet \ Kept)
    IN  StripTrailingIn(StripLeadingIn(kept, DocSeparators), DocSeparators)

\* cleaned.split(/[\s_\-.]+/).filter(word => word.length > 0)
Words(str) == SelectSeq(Split(Cleaned(str), DocSeparators), LAMBDA w : Len(w) > 0)

toCamelCase(str) ==
    IF OnlySeparators(str) THEN <<>>
    ELSE LET words == Words(str)
         IN  IF Len(words) = 0 THEN <<>>
             ELSE Join([k \in 1..Len(words) |-> CamelWord(words[k], k - 1)], <<>>)

\* the words joined by dots without toLowerCase
toDotCaseKeepsCase(str) ==
    IF OnlySeparators(str) THEN <<>>
    ELSE LET words == Words(str)
         IN  IF Len(words) = 0 THEN <<>> ELSE Join(words, <<".">>)

toDotCase(str) ==
    IF OnlySeparators(str) THEN <<>>
    ELSE LET words == Words(str)
         IN  IF Len(words) = 0 THEN <<>>
             ELSE Join([k \in 1..Len(words) |-> ToLowerCase(words[k])], <<".">>)

(* ------------------------------- state -------------------------------- *)

TypeOK ==
    /\ comments \subseteq InitialComments
    /\ items = InitialItems
    /\ Len(reqs) <= MaxReqs
    /\ fn \in {"none", "toKebabCase", "toCamelCaseFewShot", "toCamelCase", "toDotCase"}
    /\ arg \in Strings
    /\ argKind \in Kinds

RouterInit == comments = InitialComments /\ items = InitialItems /\ reqs = <<>>

NoCall == fn = "none" /\ ret = <<>> /\ thrown = <<>>

Init == RouterInit /\ NoCall /\ arg = <<>> /\ argKind = "string"

(* --------------------------- router actions --------------------------- *)

\* router.get("/"): the handler up to `await Comment.find()`
GetComments(c) ==
    /\ Len(reqs) < MaxReqs
    /\ reqs' = Append(reqs, NewRequest("GET", c, 0))
    /\ UNCHANGED <<comments, items, fn, arg, argKind, ret, thrown>>

\* router.delete("/:id"): the handler up to the findByIdAndDelete call
DeleteComment(c, id) ==
    /\ Len(reqs) < MaxReqs
    /\ reqs' = Append(reqs, NewRequest("DELETE", c, id))
    /\ UNCHANGED <<comments, items, fn, arg, argKind, ret, thrown>>

\* the store answers Comment.find() of request i
FindResolves(i) ==
    /\ Pending(i) /\ reqs[i].method = "GET"
    /\ reqs' = [reqs EXCEPT ![i].settle = "resolved", ![i].value = Find(comments)]
    /\ UNCHANGED <<comments, items, fn, arg, argKind, ret, thrown>>

\* the store executes findByIdAndDelete of request i: the call is on the Comment
\* model alone, no Item document is read or written by the handler
FindByIdAndDeleteResolves(i) ==
    /\ Pending(i) /\ reqs[i].method = "DELETE"
    /\ reqs' = [reqs EXCEPT ![i].settle = "resolved",
                            ![i].value = FoundById(comments, reqs[i].id)]
    /\ comments' = AfterFindByIdAndDelete(comments, reqs[i].id)
    /\ UNCHANGED <<items, fn, arg, argKind, ret, thrown>>

\* the persistence call of request i fails: the promise rejects with e and the
\* collection is left as it was
Rejects(i, e) ==
    /\ Pending(i)
    /\ reqs' = [reqs EXCEPT ![i].settle = "rejected", ![i].err = e]
    /\ UNCHANGED <<comments, items, fn, arg, argKind, ret, thrown>>

\* GET /: the rest of the try block, or the catch block
GetResponds(i) ==
    /\ Settled(i) /\ reqs[i].method = "GET" /\ reqs[i].resp = <<>>
    /\ reqs' = [reqs EXCEPT ![i].resp =
                   Append(@, IF reqs[i].settle = "resolved"
                             THEN GetTry(reqs[i].value)
                             ELSE GetCatch(reqs[i].err))]
    /\ UNCHANGED <<comments, items, fn, arg, argKind, ret, thrown>>

\* DELETE /:id: the then callback, or the catch callback
DeleteResponds(i) ==
    /\ Settled(i) /\ reqs[i].method = "DELETE" /\ reqs[i].resp = <<>>
    /\ reqs' = [reqs EXCEPT ![i].resp =
                   Append(@, IF reqs[i].settle = "resolved"
                             THEN DeleteThen(reqs[i].value)
                             ELSE DeleteCatch(reqs[i].err))]
    /\ UNCHANGED <<comments, items, fn, arg, argKind, ret, thrown>>

Next ==
    \/ \E c \in Callers : GetComments(c)
    \/ \E c \in Callers, id \in RequestIds : DeleteComment(c, id)
    \/ \E i \in 1..Len(reqs) : FindResolves(i)
    \/ \E i \in 1..Len(reqs) : FindByIdAndDeleteResolves(i)
    \/ \E i \in 1..Len(reqs), e \in Errors : Rejects(i, e)
    \/ \E i \in 1..Len(reqs) : GetResponds(i)
    \/ \E i \in 1..Len(reqs) : DeleteResponds(i)

Spec == Init /\ [][Next]_vars

\* Once the promise of a persistence call has settled, the event loop runs its
\* continuation (the code after await, the then or the catch callback): a
\* continuation that is ready is not postponed forever.  Nothing makes the store
\* settle a call: the handlers set no timeout, so the settle steps get no fairness.
ContinuationsRun ==
    \A i \in 1..MaxReqs : WF_vars(GetResponds(i)) /\ WF_vars(DeleteResponds(i))

\* The same steps over the requests of one caller: neither handler reads the
\* identity of the request, so which caller sent it changes no step.
NextLive ==
    \/ GetComments(Anonymous)
    \/ \E id \in RequestIds : DeleteComment(Anonymous, id)
    \/ \E i \in 1..Len(reqs) : FindResolves(i)
    \/ \E i \in 1..Len(reqs) : FindByIdAndDeleteResolves(i)
    \/ \E i \in 1..Len(reqs), e \in Errors : Rejects(i, e)
    \/ \E i \in 1..Len(reqs) : GetResponds(i)
    \/ \E i \in 1..Len(reqs) : DeleteResponds(i)

SpecLive == Init /\ [][NextLive]_vars /\ ContinuationsRun

(* ------------------------ string utility calls ------------------------ *)

\* a call whose argument is a string
StringArg == arg \in Strings /\ argKind = "string"

InitKebab == RouterInit /\ NoCall /\ StringArg

\* the outcome of a call: the value returned, or the message of the Error thrown
Returns(f, value) == fn' = f /\ ret' = value /\ thrown' = <<>>
Throws(f, message) == fn' = f /\ ret' = <<>> /\ thrown' = message

\* str == null in place of the typeof test
KebabRejectsNullish(kind) == kind \in {"null", "undefined"}

\* typeof str !== 'string'
KebabRejects(kind) == TypeOf(kind) # "string"

CallToKebabCase ==
    /\ fn = "none"
    /\ IF KebabRejects(argKind)
       THEN Throws("toKebabCase", <<"Expected a string, but received: ", TypeOf(argKind)>>)
       ELSE Returns("toKebabCase", toKebabCase(arg))
    /\ UNCHANGED <<comments, items, reqs, arg, argKind>>

NextKebab == CallToKebabCase

SpecKebab == InitKebab /\ [][NextKebab]_vars

\* toCamelCase of few_shot_prompt.js validates nothing: on a value that is no
\* string, str.split is no function (or str is null or undefined) and the call
\* ends in a TypeError
CallToCamelCaseFewShot ==
    /\ fn = "none"
    /\ IF TypeOf(argKind) # "string"
       THEN Throws("toCamelCaseFewShot", <<"TypeError">>)
       ELSE Returns("toCamelCaseFewShot", toCamelCaseFewShot(arg))
    /\ UNCHANGED <<comments, items, reqs, arg, argKind>>

\* !str in place of the typeof test: a number, an object and true pass
DocRejectsFalsy(kind) == kind \in {"null", "undefined"}

\* typeof str !== 'string', in toCamelCase and toDotCase
DocRejects(kind) == TypeOf(kind) # "string"

CallToCamelCase ==
    /\ fn = "none"
    /\ IF DocRejects(argKind)
       THEN Throws("toCamelCase", <<"Input must be a string, received: ", TypeOf(argKind)>>)
       ELSE Returns("toCamelCase", toCamelCase(arg))
    /\ UNCHANGED <<comments, items, reqs, arg, argKind>>

CallToDotCase ==
    /\ fn = "none"
    /\ IF DocRejects(argKind)
       THEN Throws("toDotCase", <<"Input must be a string, received: ", TypeOf(argKind)>>)
       ELSE Returns("toDotCase", toDotCase(arg))
    /\ UNCHANGED <<comments, items, reqs, arg, argKind>>

\* the two toCamelCase implementations on string arguments
NextCamel == CallToCamelCaseFewShot \/ CallToCamelCase

SpecCamel == InitKebab /\ [][NextCamel]_vars

\* toDotCase on string arguments
NextDot == CallToDotCase

SpecDot == InitKebab /\ [][NextDot]_vars

\* the utilities on arguments of every kind
InitTyped ==
    /\ RouterInit /\ NoCall
    /\ argKind \in Kinds
    /\ arg \in (IF argKind = "string" THEN Strings ELSE {<<>>})

NextTyped ==
    \/ CallToKebabCase
    \/ CallToCamelCaseFewShot
    \/ CallToCamelCase
    \/ CallToDotCase

SpecTyped == InitTyped /\ [][NextTyped]_vars

(* ======================= properties of the router ====================== *)

Requests == 1..Len(reqs)
Responded(i) == reqs[i].resp # <<>>
Response(i) == reqs[i].resp[1]

\* the store settles the persistence call of request i in this step
Settles(i) == reqs[i].settle = "pending" /\ reqs'[i].settle # "pending"

\* the documents of the collection other than the one with this id
Others(id) == { c \in comments : c.id # id }
Stored(id) == \E c \in comments : c.id = id

\* the Authorization Gate of the design: the identity is present and is the
\* owner, or is an admin
CanMutate(identity, owner) ==
    identity # Anonymous /\ (identity = owner \/ Role(identity) = "admin")

\* C1: a comment is removed only on behalf of a caller who is its author (or an
\* admin); a DELETE of a comment by any other caller, an anonymous one included,
\* is answered 401 or 403 and removes nothing.
C1_DeleteOnlyByAuthor ==
    \A i \in Requests :
        reqs[i].method = "DELETE" =>
            /\ \A c \in reqs[i].value : CanMutate(reqs[i].caller, c.author)
            /\ ( /\ Responded(i)
                 /\ reqs[i].id \in CommentIds
                 /\ ~CanMutate(reqs[i].caller, AuthorOf(reqs[i].id)) )
               => Response(i).status \in {401, 403}

\* C2 as stated: whenever DELETE /:id reaches the store with an id that identifies
\* a stored comment, exactly that comment is removed, and the request is answered
\* 204 with no body.
C2_Original ==
    [][\A i \in Requests :
         reqs[i].method = "DELETE" =>
            /\ ( Settles(i) /\ Stored(reqs[i].id) )
               => comments' = Others(reqs[i].id)
            /\ ( ~Responded(i) /\ Responded(i)'
                 /\ (Stored(reqs[i].id) \/ reqs[i].value # {}) )
               => Response(i)' = Empty(204)
      ]_vars

\* C2 as amended: when findByIdAndDelete resolves for an id that identifies a
\* stored comment, exactly that comment is removed, every other stored comment
\* stays as it was, and the answer is 204 with no body; when the call rejects,
\* nothing is removed and the answer is 500 {error: "Failed to delete comment"}.
C2_DeleteRemovesExactlyThat ==
    [][\A i \in Requests :
         reqs[i].method = "DELETE" =>
            /\ ( Settles(i) /\ reqs'[i].settle = "resolved" /\ Stored(reqs[i].id) )
               => ( /\ comments' = Others(reqs[i].id)
                    /\ comments \ comments' = reqs'[i].value
                    /\ Cardinality(reqs'[i].value) = 1 )
            /\ ( Settles(i) /\ reqs'[i].settle = "rejected" )
               => comments' = comments
            /\ ( Responded(i)' /\ reqs[i].settle = "resolved" /\ reqs[i].value # {} )
               => reqs'[i].resp = <<Empty(204)>>
            /\ ( Responded(i)' /\ reqs[i].settle = "rejected" )
               => reqs'[i].resp = <<JsonError(500, "Failed to delete comment")>>
      ]_vars

C2_Witness ==
    \E i \in Requests :
        /\ reqs[i].method = "DELETE" /\ Responded(i)
        /\ Response(i).status = 204
        /\ reqs[i].value # {}
        /\ comments = InitialComments \ reqs[i].value
        /\ comments # {}

\* C3 as stated: whenever DELETE /:id reaches the store with an id that identifies
\* no stored comment, the answer is 404 {error: "Comment not found"} and the
\* stored comments stay the same.
C3_Original ==
    [][\A i \in Requests :
         reqs[i].method = "DELETE" =>
            /\ ( Settles(i) /\ ~Stored(reqs[i].id) )
               => comments' = comments
            /\ ( ~Responded(i) /\ Responded(i)' /\ reqs[i].id \notin CommentIds )
               => Response(i)' = JsonError(404, "Comment not found")
      ]_vars

\* C3 as amended: when findByIdAndDelete resolves for an id that identifies no
\* stored comment, the answer is 404 {error: "Comment not found"} and the stored
\* comments are the same after the request as before it; when the call rejects,
\* the answer is 500 and the stored comments are likewise unchanged.
C3_DeleteNotFound ==
    [][\A i \in Requests :
         reqs[i].method = "DELETE" =>
            /\ ( Settles(i) /\ ~Stored(reqs[i].id) )
               => ( comments' = comments /\ reqs'[i].value = {} )
            /\ ( Responded(i)' /\ reqs[i].settle = "resolved" /\ reqs[i].value = {} )
               => reqs'[i].resp = <<JsonError(404, "Comment not found")>>
            /\ ( Responded(i)' /\ reqs[i].settle = "rejected" )
               => Response(i)'.status = 500
      ]_vars

C3_Witness ==
    \E i \in Requests :
        /\ reqs[i].method = "DELETE" /\ Responded(i)
        /\ reqs[i].id \notin CommentIds
        /\ Response(i).status = 404
        /\ comments = InitialComments

\* C4: a failed persistence call reaches the caller unmodified: the answer carries
\* the error the call rejected with, so two requests to the same route whose
\* calls failed with different errors get different answers.
C4_ErrorsReachCaller ==
    /\ \A i \in Requests :
          ( reqs[i].settle = "rejected" /\ Responded(i) )
             => Response(i).error = reqs[i].err
    /\ \A i, j \in Requests :
          ( /\ reqs[i].method = reqs[j].method
            /\ reqs[i].settle = "rejected" /\ reqs[j].settle = "rejected"
            /\ reqs[i].err # reqs[j].err
            /\ Responded(i) /\ Responded(j) )
             => Response(i) # Response(j)

\* C5: GET / gives comment data only to a caller whose role is admin.
C5_ListOnlyForAdmin ==
    \A i \in Requests :
        ( reqs[i].method = "GET" /\ Responded(i) /\ Response(i).docs # {} )
           => Role(reqs[i].caller) = "admin"

\* C6: when Comment.find() resolves, GET / answers 200 with exactly the comments
\* that are in the store at the moment of the read; when it rejects, GET / answers
\* 500 {error: "Failed to fetch comments"}.
C6_GetListsStore ==
    [][\A i \in Requests :
         reqs[i].method = "GET" =>
            /\ ( Settles(i) /\ reqs'[i].settle = "resolved" )
               => reqs'[i].value = comments
            /\ ( Responded(i)' /\ reqs[i].settle = "resolved" )
               => reqs'[i].resp =
                     <<[status |-> 200, kind |-> "json",
                        docs |-> reqs[i].value, error |-> ""]>>
            /\ ( Responded(i)' /\ reqs[i].settle = "rejected" )
               => reqs'[i].resp =
                     <<[status |-> 500, kind |-> "error",
                        docs |-> {}, error |-> "Failed to fetch comments"]>>
      ]_vars

\* a GET answered with the store as it was when read, after which a comment of
\* that answer was deleted
C6_Witness ==
    \E i \in Requests :
        /\ reqs[i].method = "GET" /\ Responded(i)
        /\ Response(i).status = 200
        /\ Response(i).docs = InitialComments
        /\ comments # InitialComments

\* C7: under any interleaving of GET / and DELETE /:id, every stored comment is
\* one of the initial comments with its body, author and item unchanged, no
\* comment is ever added, and every comment that is gone was removed by a DELETE
\* (a GET removes nothing).
C7_CommentsImmutable ==
    /\ comments \subseteq InitialComments
    /\ InitialComments \ comments =
          UNION { reqs[i].value : i \in { j \in Requests : reqs[j].method = "DELETE" } }
    /\ \A i, j \in Requests :
          ( i # j /\ reqs[i].method = "DELETE" /\ reqs[j].method = "DELETE" )
             => reqs[i].value \cap reqs[j].value = {}

C7_Witness ==
    \E i, j \in Requests :
        /\ reqs[i].method = "GET" /\ Responded(i)
        /\ reqs[j].method = "DELETE" /\ Responded(j) /\ reqs[j].value # {}
        /\ comments # {}

\* the statuses a handler can answer with
StatusesOf(method) == IF method = "GET" THEN {200, 500} ELSE {204, 404, 500}

\* request i has been received and its persistence call has settled
HasSettled(i) == i \in Requests /\ reqs[i].settle # "pending"
\* request i has been received and answered
HasResponse(i) == i \in Requests /\ reqs[i].resp # <<>>

\* C21: every GET / and every DELETE /:id whose persistence call settles
\* (resolves or rejects) is eventually answered, and answered exactly once: no
\* request is ever answered twice, an answer once sent is never replaced or
\* followed by another, no request is answered before its call has settled, and
\* the status is 200 or 500 for GET and 204, 404 or 500 for DELETE.
C21_ExactlyOneResponse ==
    /\ [](\A i \in Requests :
            /\ Len(reqs[i].resp) <= 1
            /\ Responded(i) =>
                  /\ reqs[i].settle # "pending"
                  /\ Response(i).status \in StatusesOf(reqs[i].method))
    /\ [][\A i \in Requests : Responded(i) => reqs'[i].resp = reqs[i].resp]_vars
    /\ \A i \in 1..MaxReqs : HasSettled(i) ~> HasResponse(i)

\* a GET whose call rejected and a DELETE whose call resolved, each answered
\* once, in either order of arrival
C21_Witness ==
    \E i, j \in Requests :
        /\ reqs[i].method = "GET" /\ reqs[i].settle = "rejected"
        /\ reqs[i].resp = <<GetCatch(reqs[i].err)>>
        /\ reqs[j].method = "DELETE" /\ reqs[j].settle = "resolved"
        /\ reqs[j].resp = <<DeleteThen(reqs[j].value)>>

\* C22: comment deletion keeps referential integrity between items and
\* comments: after any sequence of DELETE /:id requests, every comment id held in
\* the comments array of an Item identifies a stored Comment.
C22_ItemsReferenceStoredComments ==
    \A it \in items : \A id \in it.comments : Stored(id)

(* ======================= properties of toKebabCase ===================== *)

Alnum == Lower \cup Upper \cup Digit
NonAlnum == Alphabet \ Alnum
\* the characters toKebabCase treats as word separators
Separators == Whitespace \cup {"_", "-"}
Hyphen == {"-"}

Returned == fn = "toKebabCase"

\* s without its Sep characters
Core(s, Sep) == SelectSeq(s, LAMBDA c : c \notin Sep)

\* index in s of its k-th character that is not in Sep
Pos(s, Sep, k) ==
    CHOOSE i \in 1..Len(s) :
        s[i] \notin Sep /\ Cardinality({ j \in 1..i : s[j] \notin Sep }) = k

\* number of Sep characters between the k-th and the (k+1)-th other characters
Gap(s, Sep, k) == Pos(s, Sep, k + 1) - Pos(s, Sep, k) - 1

Chars(s) == { s[i] : i \in 1..Len(s) }

\* C8 as stated: the output holds only lowercase letters, digits and hyphens, and
\* each maximal run of non-alphanumeric input characters between two
\* alphanumerics is replaced by exactly one hyphen.
C8_Original ==
    Returned =>
        /\ Chars(ret) \subseteq (Lower \cup Digit \cup Hyphen)
        /\ Core(ret, Hyphen) = ToLowerCase(Core(arg, NonAlnum))
        /\ \A k \in 1..(Len(Core(arg, NonAlnum)) - 1) :
              Gap(arg, NonAlnum, k) > 0 => Gap(ret, Hyphen, k) = 1

\* C8 as amended: the output holds no uppercase letter, whitespace or underscore;
\* its other characters are those of the input, lowercased and in order; and each
\* maximal run of whitespace, underscores and hyphens between two other
\* characters is replaced by exactly one hyphen.  Other punctuation is kept.
C8_SeparatorRunsCollapse ==
    Returned =>
        /\ Chars(ret) \cap (Upper \cup Whitespace \cup {"_"}) = {}
        /\ Core(ret, Hyphen) = ToLowerCase(Core(arg, Separators))
        /\ \A k \in 1..(Len(Core(arg, Separators)) - 1) :
              Gap(arg, Separators, k) > 0 => Gap(ret, Hyphen, k) = 1

C8_Witness ==
    Returned /\ arg = <<"a", " ", "_", "b">> /\ ret = <<"a", "-", "b">>

\* C9 as stated: for an input made only of letters and digits the output holds no
\* hyphen.
C9_Original ==
    ( Returned /\ Chars(arg) \subseteq Alnum ) => "-" \notin Chars(ret)

\* C9 as amended: a hyphen appears in the output only between two characters that
\* the input separates by whitespace, underscores or hyphens, or that are a
\* lowercase letter immediately followed by an uppercase letter; so for an input
\* of letters and digits with no lowercase letter directly before an uppercase
\* one the output holds no hyphen.
C9_HyphensOnlyAtBoundaries ==
    Returned =>
        /\ Len(Core(ret, Hyphen)) = Len(Core(arg, Separators))
        /\ ret # <<>> => ( Head(ret) # "-" /\ ret[Len(ret)] # "-" )
        /\ \A k \in 1..(Len(Core(arg, Separators)) - 1) :
              Gap(ret, Hyphen, k) > 0 =>
                 \/ Gap(arg, Separators, k) > 0
                 \/ LET p == Pos(arg, Separators, k)
                    IN  arg[p] \in Lower /\ arg[p + 1] \in Upper
        /\ ( /\ Chars(arg) \subseteq Alnum
             /\ \A p \in 1..(Len(arg) - 1) : ~(arg[p] \in Lower /\ arg[p + 1] \in Upper) )
           => "-" \notin Chars(ret)

C9_Witness ==
    Returned /\ arg = <<"a", "B", "1", "A">> /\ ret = <<"a", "-", "b", "1", "a">>

\* C10 as stated: toKebabCase never returns the empty string.
C10_Original == Returned => ret # <<>>

\* C10 as amended: toKebabCase returns the empty string exactly when the input is
\* empty or holds only whitespace, underscores and hyphens; no token is
\* substituted.
C10_EmptyIffOnlySeparators ==
    Returned => ( ret = <<>> <=> Chars(arg) \subseteq Separators )

C10_Witness ==
    Returned /\ arg = <<" ", "_", "-">> /\ ret = <<>>

\* the words of the claim's reference, written by positions: the k-th character
\* of s that is no separator, lowercased, followed by a hyphen when the next
\* such character is in another word
RECURSIVE RefKebabFrom(_, _)
RefKebabFrom(s, k) ==
    LET n == Len(Core(s, Separators))
    IN  IF k > n THEN <<>>
        ELSE LET p == Pos(s, Separators, k)
                 split == /\ k < n
                          /\ \/ Gap(s, Separators, k) > 0
                             \/ (s[p] \in Lower /\ s[p + 1] \in Upper)
             IN  <<LowerOf(s[p])>> \o (IF split THEN <<"-">> ELSE <<>>)
                 \o RefKebabFrom(s, k + 1)

\* C11: toKebabCase(s) is the reference result: the words of s, split at every
\* run of whitespace, underscores or hyphens and at every lowercase letter
\* directly followed by an uppercase letter (and nowhere else, so not between two
\* uppercase letters nor between a digit and an uppercase letter), empty words
\* dropped, each lowercased, joined by single hyphens.
C11_KebabIsReference == Returned => ret = RefKebabFrom(arg, 1)

C11_Witness ==
    Returned /\ arg = <<"a", "A", "B", "_">> /\ ret = <<"a", "-", "a", "b">>

\* C12: the result of toKebabCase holds no uppercase letter, no whitespace and no
\* underscore, does not begin or end with a hyphen, and holds no two adjacent
\* hyphens.
C12_KebabShape ==
    Returned =>
        /\ \A i \in 1..Len(ret) : ret[i] \notin (Upper \cup Whitespace \cup {"_"})
        /\ Len(ret) > 0 => (ret[1] # "-" /\ ret[Len(ret)] # "-")
        /\ \A i \in 1..(Len(ret) - 1) : ~(ret[i] = "-" /\ ret[i + 1] = "-")

C12_Witness ==
    Returned /\ arg = <<"a", "_", "-", "B">> /\ ret = <<"a", "-", "b">>

(* ================== properties of the argument checks ================== *)

\* what typeof gives for 123, null, undefined, {} and true
ExpectedTypeof(kind) ==
    CASE kind = "number" -> "number"
      [] kind = "null" -> "object"
      [] kind = "undefined" -> "undefined"
      [] kind = "object" -> "object"
      [] kind = "boolean" -> "boolean"
      [] OTHER -> "string"

\* C13: toKebabCase throws an Error with message "Expected a string, but
\* received: <typeof input>" for every input that is no string, and returns
\* without throwing for every string input, the empty string included.
C13_KebabThrowsOnNonString ==
    fn = "toKebabCase" =>
        IF argKind = "string"
        THEN thrown = <<>>
        ELSE thrown = <<"Expected a string, but received: ", ExpectedTypeof(argKind)>>

C13_Witness ==
    /\ fn = "toKebabCase" /\ argKind = "null"
    /\ thrown = <<"Expected a string, but received: ", "object">>

(* ===================== properties of toCamelCase ====================== *)

Letters == Lower \cup Upper

ReturnedBy(f) == fn = f /\ thrown = <<>>

\* C14: on an input with no separator both toCamelCase implementations keep the
\* interior capitals and lowercase only the first letter (toCamelCase('HelloWorld')
\* is 'helloWorld').
C14_KeepsInteriorCapitals ==
    ( /\ ReturnedBy("toCamelCaseFewShot") \/ ReturnedBy("toCamelCase")
      /\ arg # <<>>
      /\ Chars(arg) \subseteq Letters )
       => ret = <<LowerOf(arg[1])>> \o Tail(arg)

\* s with the character c put in after index i (i = 0: in front)
InsertAt(s, i, c) == SubSeq(s, 1, i) \o <<c>> \o SubSeq(s, i + 1, Len(s))

\* C15: for a string of words and separators, the result of toCamelCase of
\* few_shot_prompt.js does not change when a separator is added before it, after
\* it, or inside one of its separator runs, and never begins with an uppercase
\* letter.
C15_SeparatorRunsIgnored ==
    ( /\ ReturnedBy("toCamelCaseFewShot")
      /\ Chars(arg) \subseteq (Alnum \cup FewShotSeparators) )
       => /\ \A c \in FewShotSeparators :
               /\ toCamelCaseFewShot(InsertAt(arg, 0, c)) = ret
               /\ toCamelCaseFewShot(InsertAt(arg, Len(arg), c)) = ret
               /\ \A i \in 1..Len(arg) :
                     arg[i] \in FewShotSeparators
                        => toCamelCaseFewShot(InsertAt(arg, i, c)) = ret
          /\ ret # <<>> => ret[1] \notin Upper

\* the camelCase form of words of letters, by positions: a letter that follows a
\* separator is uppercase, every other letter lowercase, separators dropped
RECURSIVE RefCamelFrom(_, _)
RefCamelFrom(s, i) ==
    IF i > Len(s) THEN <<>>
    ELSE (IF s[i] \in FewShotSeparators THEN <<>>
          ELSE IF i > 1 /\ s[i - 1] \in FewShotSeparators
               THEN <<UpperOf(LowerOf(s[i]))>>
               ELSE <<LowerOf(s[i])>>)
         \o RefCamelFrom(s, i + 1)

RECURSIVE RefDocFrom(_, _, _, _, _)
RefDocFrom(s, i, started, brk, dotted) ==
    IF i > Len(s) THEN <<>>
    ELSE IF s[i] \in Alnum
         THEN (IF started /\ brk
               THEN (IF dotted THEN <<".", LowerOf(s[i])>>
                               ELSE <<UpperOf(LowerOf(s[i]))>>)
               ELSE <<LowerOf(s[i])>>)
              \o RefDocFrom(s, i + 1, TRUE, FALSE, dotted)
         ELSE RefDocFrom(s, i + 1, started, brk \/ s[i] \in DocSeparators, dotted)

\* C17: toCamelCase of the documented file returns only ASCII letters and
\* digits: a character that is no letter, digit or separator is removed without
\* making a word boundary, the digits are kept in order, a non-empty result does
\* not begin with an uppercase letter, and the result is empty when the input is
\* empty or holds only separators.
C17_DocCamel ==
    ReturnedBy("toCamelCase") =>
        /\ ret = RefDocFrom(arg, 1, FALSE, FALSE, FALSE)
        /\ Chars(ret) \subseteq Alnum
        /\ Core(ret, Letters) = Core(arg, Alphabet \ Digit)
        /\ ToLowerCase(ret) = ToLowerCase(Core(arg, NonAlnum))
        /\ ret # <<>> => ret[1] \notin Upper
        /\ Chars(arg) \subseteq DocSeparators => ret = <<>>

C17_Witness ==
    /\ ReturnedBy("toCamelCase")
    /\ arg = <<"A", "@", "1", "B">> /\ ret = <<"a", "1", "b">>

(* ======================= properties of toDotCase ====================== *)

Dot == {"."}

\* C18: toDotCase splits camelCase input: where a lowercase letter is directly
\* followed by an uppercase letter in the input, the output has a dot between
\* the two (toDotCase('camelCaseString') is 'camel.case.string').
C18_DotSplitsCamelCase ==
    ( ReturnedBy("toDotCase") /\ Len(Core(ret, Dot)) = Len(Core(arg, NonAlnum)) )
       => \A k \in 1..(Len(Core(arg, NonAlnum)) - 1) :
             LET p == Pos(arg, NonAlnum, k)
             IN  (arg[p] \in Lower /\ arg[p + 1] \in Upper)
                    => Gap(ret, Dot, k) = 1

C20_DocThrowsOnNonString ==
    fn \in {"toCamelCase", "toDotCase"} =>
        IF argKind = "string"
        THEN thrown = <<>>
        ELSE thrown = <<"Input must be a string, received: ", ExpectedTypeof(argKind)>>

C20_Witness ==
    /\ fn = "toDotCase" /\ argKind = "number"
    /\ thrown = <<"Input must be a string, received: ", "number">>

====
